---------------------------- MODULE Spec2Model ----------------------------
(***************************************************************************)
(* Model of the BatchModeTimeHistory flight-simulation app (src/app.py):   *)
(* a Streamlit script that is re-executed top to bottom on every widget    *)
(* interaction, with st.session_state surviving between the executions.    *)
(*                                                                         *)
(* Weights taken from AIRCRAFT_CONFIG are kept in hundredths of a pound    *)
(* ("centi-pounds"), because some configured BOWs are fractional           *)
(* (7328.65 lb).  Widget values are integers in pounds, as the            *)
(* st.number_input calls use integer min/max/value/step.                   *)
(*                                                                         *)
(* run_simulation lives in simulation.py, which is not part of src/; its   *)
(* segment state machine is modelled from spec.md sections 4.5 and 7.      *)
(***************************************************************************)
EXTENDS Integers, Sequences, FiniteSets, TLC

\* ------------------------------------------------------------------------
\* AIRCRAFT_CONFIG: the fields of each configuration tuple the app reads.
\* ------------------------------------------------------------------------

AIRCRAFT_CONFIG(k) ==
  CASE k = <<"CJ", "Flatwing">> -> [ceiling |-> 41000, bow |-> 650000, mzfw |-> 840000, mrw |-> 1050000, mtow |-> 1040000, max_fuel |-> 344000, taxi_fuel |-> 10000, reserve_fuel |-> 60000]
  [] k = <<"CJ", "Tamarack">> -> [ceiling |-> 41000, bow |-> 657865, mzfw |-> 880000, mrw |-> 1050000, mtow |-> 1040000, max_fuel |-> 344000, taxi_fuel |-> 10000, reserve_fuel |-> 60000]
  [] k = <<"CJ1", "Flatwing">> -> [ceiling |-> 41000, bow |-> 725000, mzfw |-> 840000, mrw |-> 1080000, mtow |-> 1070000, max_fuel |-> 344000, taxi_fuel |-> 10000, reserve_fuel |-> 60000]
  [] k = <<"CJ1", "Tamarack">> -> [ceiling |-> 41000, bow |-> 732865, mzfw |-> 880000, mrw |-> 1080000, mtow |-> 1070000, max_fuel |-> 344000, taxi_fuel |-> 10000, reserve_fuel |-> 60000]
  [] k = <<"CJ1+", "Flatwing">> -> [ceiling |-> 41000, bow |-> 725000, mzfw |-> 840000, mrw |-> 1090000, mtow |-> 1080000, max_fuel |-> 344000, taxi_fuel |-> 10000, reserve_fuel |-> 60000]
  [] k = <<"CJ1+", "Tamarack">> -> [ceiling |-> 41000, bow |-> 732865, mzfw |-> 880000, mrw |-> 1090000, mtow |-> 1080000, max_fuel |-> 344000, taxi_fuel |-> 10000, reserve_fuel |-> 60000]
  [] k = <<"CJ2", "Flatwing">> -> [ceiling |-> 45000, bow |-> 790000, mzfw |-> 930000, mrw |-> 1260000, mtow |-> 1250000, max_fuel |-> 396100, taxi_fuel |-> 10000, reserve_fuel |-> 70000]
  [] k = <<"CJ2", "Tamarack">> -> [ceiling |-> 45000, bow |-> 797926, mzfw |-> 1010000, mrw |-> 1260000, mtow |-> 1250000, max_fuel |-> 396100, taxi_fuel |-> 10000, reserve_fuel |-> 70000]
  [] k = <<"CJ2+", "Flatwing">> -> [ceiling |-> 45000, bow |-> 790000, mzfw |-> 970000, mrw |-> 1272500, mtow |-> 1262500, max_fuel |-> 396100, taxi_fuel |-> 10000, reserve_fuel |-> 70000]
  [] k = <<"CJ2+", "Tamarack">> -> [ceiling |-> 45000, bow |-> 797926, mzfw |-> 1010000, mrw |-> 1272500, mtow |-> 1262500, max_fuel |-> 396100, taxi_fuel |-> 10000, reserve_fuel |-> 70000]
  [] k = <<"CJ3", "Flatwing">> -> [ceiling |-> 45000, bow |-> 850000, mzfw |-> 1051000, mrw |-> 1417000, mtow |-> 1407000, max_fuel |-> 471000, taxi_fuel |-> 10000, reserve_fuel |-> 80000]
  [] k = <<"CJ3", "Tamarack">> -> [ceiling |-> 45000, bow |-> 858020, mzfw |-> 1091000, mrw |-> 1417000, mtow |-> 1407000, max_fuel |-> 471000, taxi_fuel |-> 10000, reserve_fuel |-> 80000]
  [] k = <<"CJ3+", "Flatwing">> -> [ceiling |-> 45000, bow |-> 850000, mzfw |-> 1051000, mrw |-> 1417000, mtow |-> 1407000, max_fuel |-> 471000, taxi_fuel |-> 10000, reserve_fuel |-> 80000]
  [] k = <<"CJ3+", "Tamarack">> -> [ceiling |-> 45000, bow |-> 858020, mzfw |-> 1091000, mrw |-> 1417000, mtow |-> 1407000, max_fuel |-> 471000, taxi_fuel |-> 10000, reserve_fuel |-> 80000]
  [] k = <<"M2", "Flatwing">> -> [ceiling |-> 41000, bow |-> 803000, mzfw |-> 840000, mrw |-> 1090000, mtow |-> 1080000, max_fuel |-> 329600, taxi_fuel |-> 10000, reserve_fuel |-> 60000]
  [] k = <<"M2", "Tamarack">> -> [ceiling |-> 41000, bow |-> 801000, mzfw |-> 880000, mrw |-> 1090000, mtow |-> 1080000, max_fuel |-> 329600, taxi_fuel |-> 10000, reserve_fuel |-> 60000]
  [] k = <<"C208B", "Flatwing">> -> [ceiling |-> 25000, bow |-> 460000, mzfw |-> 700000, mrw |-> 885000, mtow |-> 875000, max_fuel |-> 220000, taxi_fuel |-> 5000, reserve_fuel |-> 25000]
  [] k = <<"C208B", "Tamarack">> -> [ceiling |-> 25000, bow |-> 465000, mzfw |-> 705000, mrw |-> 885000, mtow |-> 875000, max_fuel |-> 220000, taxi_fuel |-> 5000, reserve_fuel |-> 25000]
  [] k = <<"C208EX", "Flatwing">> -> [ceiling |-> 25000, bow |-> 500000, mzfw |-> 730000, mrw |-> 920000, mtow |-> 906200, max_fuel |-> 250000, taxi_fuel |-> 5000, reserve_fuel |-> 30000]
  [] k = <<"C208EX", "Tamarack">> -> [ceiling |-> 25000, bow |-> 505000, mzfw |-> 735000, mrw |-> 920000, mtow |-> 906200, max_fuel |-> 250000, taxi_fuel |-> 5000, reserve_fuel |-> 30000]
  [] k = <<"C208", "Flatwing">> -> [ceiling |-> 25000, bow |-> 469500, mzfw |-> 700000, mrw |-> 810000, mtow |-> 800000, max_fuel |-> 200000, taxi_fuel |-> 5000, reserve_fuel |-> 25000]
  [] k = <<"C208", "Tamarack">> -> [ceiling |-> 25000, bow |-> 474500, mzfw |-> 705000, mrw |-> 810000, mtow |-> 800000, max_fuel |-> 200000, taxi_fuel |-> 5000, reserve_fuel |-> 25000]

\* The aircraft_types list of the model selectbox; its default is "CJ1".
aircraft_types ==
  {"CJ", "CJ1", "CJ1+", "M2", "CJ2", "CJ2+", "CJ3", "CJ3+", "C208", "C208B", "C208EX"}

WingVariants == {"Flatwing", "Tamarack"}

\* The keys of the AIRCRAFT_CONFIG dictionary as shipped.
ALL_KEYS == aircraft_types \X WingVariants

\* ------------------------------------------------------------------------
\* Python arithmetic on centi-pound values.
\* ------------------------------------------------------------------------

Max(a, b) == IF a >= b THEN a ELSE b
Min(a, b) == IF a <= b THEN a ELSE b

\* A pound value as centi-pounds.
Lb(x) == 100 * x

\* int(x) for x >= 0: truncation to whole pounds.
PyInt(c) == c \div 100

\* f"{x:,.0f}" followed by float(s.replace(',', '')): the whole number of
\* pounds the formatted string denotes (round half to even).
Fmt0(c) ==
  LET q == c \div 100
      r == c % 100
  IN  IF r < 50 THEN q
      ELSE IF r > 50 THEN q + 1
      ELSE IF q % 2 = 0 THEN q ELSE q + 1


\* ------------------------------------------------------------------------
\* Values that stand for "no such key" / "no such object".
\* ------------------------------------------------------------------------

\* A session-state key that is not present, or a widget never rendered.
Absent == -1

\* The state Streamlit keeps for a keyed st.number_input: the current value
\* and the parameters (default value, max_value) it was created with.  A
\* number_input whose parameters differ from the previous run is a new
\* widget and starts again from its default value.
NoWidget == [val |-> Absent, sig |-> <<>>]

\* A number_input that keeps the value typed under other parameters.
number_input_keeps_value(st, value, max_value) ==
  IF st.val # Absent THEN [val |-> st.val, sig |-> <<value, max_value>>]
  ELSE [val |-> value, sig |-> <<value, max_value>>]

number_input(st, value, max_value) ==
  IF st.sig = <<value, max_value>> THEN st
  ELSE [val |-> value, sig |-> <<value, max_value>>]

ManualInput == "Manual Input"
MaxFuelOption == "Max Fuel (Fill Tanks, Adjust Payload to MRW)"
MaxPayloadOption == "Max Payload (Fill Payload to MZFW, Adjust Fuel to MRW)"
WeightOptions == {ManualInput, MaxFuelOption, MaxPayloadOption}
WingTypes == {"Flatwing", "Tamarack", "Comparison"}

\* ------------------------------------------------------------------------
\* The script, top to bottom.  s is st.session_state, wv the widget state,
\* c the set of keys present in AIRCRAFT_CONFIG.
\* ------------------------------------------------------------------------

\* app.py 47-55: "Initialize session state".
SessionInit(s) ==
  [s EXCEPT
     !.last_weight_option = IF s.has_last_weight_option THEN @ ELSE "None",
     !.has_last_weight_option = TRUE,
     !.payload_input_flatwing = IF @ = Absent THEN 0 ELSE @,
     !.payload_input_tamarack = IF @ = Absent THEN 0 ELSE @]

\* A model change that forgets the Tamarack BOW but not the payloads.
last_aircraft_keeps_payloads(s, aircraft_model) ==
  IF s.last_aircraft # aircraft_model
  THEN [s EXCEPT !.last_aircraft = aircraft_model,
                 !.bow_tamarack = Absent]
  ELSE s

\* app.py 65-75: "Update BOW and other values when aircraft changes".
last_aircraft(s, aircraft_model) ==
  IF s.last_aircraft # aircraft_model
  THEN [s EXCEPT !.last_aircraft = aircraft_model,
                 !.bow_tamarack = Absent,
                 !.payload_input_flatwing = Absent,
                 !.payload_input_tamarack = Absent]
  ELSE s

\* app.py 91: the modifications AIRCRAFT_CONFIG holds for the model.
mods_available(c, aircraft_model) ==
  {m \in WingVariants : <<aircraft_model, m>> \in c}

\* A lookup that files the Flatwing entry under the missing Tamarack key.
config_lookups_setdefault(c, aircraft_model) ==
  IF <<aircraft_model, "Flatwing">> \in c
  THEN c \cup {<<aircraft_model, "Tamarack">>} ELSE c

\* app.py 91-130: the keys of AIRCRAFT_CONFIG after the script's lookups.
\* The comprehension of line 91 and the .get calls of lines 97 and 103 read
\* the table; the entries are tuples, copied by list(...) before use, and
\* the stand-in Tamarack values of lines 124-129 are local variables.
config_lookups(c, aircraft_model) == c

\* app.py 117-130: the Tamarack limits; the Flatwing values stand in when
\* the table has no Tamarack entry for the model.
tamarack_values(c, aircraft_model) ==
  IF <<aircraft_model, "Tamarack">> \in c
  THEN AIRCRAFT_CONFIG(<<aircraft_model, "Tamarack">>)
  ELSE AIRCRAFT_CONFIG(<<aircraft_model, "Flatwing">>)

\* app.py 197-238: the default payload and fuel of the weight option, from
\* the configured Flatwing values.
initial_values(fc, weight_option) ==
  LET mf_payload == Min(fc.mzfw - fc.bow, fc.mrw - (fc.bow + fc.max_fuel))
      mf_tow == fc.bow + mf_payload + fc.max_fuel - fc.taxi_fuel
      mf_fuel2 == fc.mtow - (fc.bow + mf_payload) + fc.taxi_fuel
      mf == IF mf_tow > fc.mtow
            THEN IF mf_fuel2 < 0
                 THEN [payload |-> fc.mtow - fc.bow + fc.taxi_fuel, fuel |-> 0]
                 ELSE [payload |-> mf_payload, fuel |-> mf_fuel2]
            ELSE [payload |-> mf_payload, fuel |-> fc.max_fuel]
      mp_payload == fc.mzfw - fc.bow
      mp_fuel == Min(fc.max_fuel, fc.mrw - (fc.bow + mp_payload))
      mp == IF mp_fuel = fc.max_fuel
            THEN [payload |-> Min(fc.mzfw - fc.bow, fc.mrw - (fc.bow + fc.max_fuel)),
                  fuel |-> mp_fuel]
            ELSE [payload |-> mp_payload, fuel |-> mp_fuel]
      iv == IF weight_option = MaxFuelOption THEN mf
            ELSE IF weight_option = MaxPayloadOption THEN mp
            ELSE [payload |-> 0, fuel |-> Lb(3440)]
      initial_payload == Max(0, iv.payload)
      initial_fuel == Min(Max(0, iv.fuel), fc.max_fuel)
  IN  [payload |-> PyInt(initial_payload),
       fuel |-> PyInt(initial_fuel),
       taxi_fuel |-> PyInt(fc.taxi_fuel),
       reserve_fuel |-> PyInt(fc.reserve_fuel),
       cruise_altitude |-> fc.ceiling]

\* A payload that is filled in Max Payload mode but never limited.
payload_value_unclamped(current, max_payload, weight_option, changed) ==
  IF weight_option = MaxPayloadOption /\ changed
  THEN PyInt(max_payload)
  ELSE IF current = Absent THEN 0 ELSE current

\* app.py 259-282 and 377-400: the payload written back to session state
\* before the payload widget is created.  current is the value in session
\* state (0 when the key is missing), max_payload the centi-pound limit.
payload_value(current, max_payload, weight_option, changed) ==
  IF weight_option = MaxPayloadOption /\ changed
  THEN PyInt(max_payload)
  ELSE Min(IF current = Absent THEN 0 ELSE current, PyInt(max_payload))

\* app.py 341-349: "Initialize Tamarack BOW if not set".  The key
\* 'bow_flatwing' is never written, so .get falls back to the configured
\* Flatwing BOW.
bow_tamarack(s, aircraft_model, comparison_mode, fc, tv) ==
  IF s.bow_tamarack # Absent THEN s.bow_tamarack
  ELSE IF comparison_mode
       THEN PyInt(fc.bow) + (IF aircraft_model = "M2" THEN 65 ELSE 75)
       ELSE PyInt(tv.bow)

\* What the script leaves behind when it stops at app.py 92-100 (no
\* configuration for the model): nothing below was rendered, so Streamlit
\* drops the state of every widget below the model selectbox.
ConfigStop(wv, s) ==
  [stop |-> "config",
   w |-> [aircraft_model |-> wv.aircraft_model,
          weight_option |-> ManualInput,
          wing_type |-> "Flatwing",
          v1_cut_enabled |-> FALSE,
          flap_option |-> "Flap 0",
          bow_input_flatwing |-> NoWidget,
          fuel_input_flatwing |-> NoWidget,
          fuel_input_tamarack |-> NoWidget,
          cruise_altitude_input_flatwing |-> NoWidget,
          cruise_altitude_input_tamarack |-> NoWidget],
   ss |-> s,
   comparison_mode |-> FALSE,
   bow_f |-> 0, payload_input_f |-> 0, fuel_input_f |-> 0,
   reserve_fuel_f |-> 0, taxi_fuel_f |-> 0, cruise_altitude_f |-> 0,
   bow_t |-> 0, payload_input_t |-> 0, fuel_input_t |-> 0,
   reserve_fuel_t |-> 0, taxi_fuel_t |-> 0, cruise_altitude_t |-> 0]

\* app.py 453-458: the wing type check, and what the sidebar hands to the
\* rest of the script.  The widgets below a failed check are not created.
wing_type_check(wv, s4, comparison_mode, mods, iv, bow_w, payload_f, fuel_w, bow_t, payload_t, fuel_wt) ==
  LET wing_ok == wv.wing_type = "Comparison" \/ wv.wing_type \in mods
      \* app.py 326-333 and 444-451: both inputs are limited by the ceiling
      \* of the Flatwing entry, which iv.cruise_altitude holds.
      cruise_f == number_input(wv.cruise_altitude_input_flatwing,
                               iv.cruise_altitude, iv.cruise_altitude)
      cruise_t == number_input(wv.cruise_altitude_input_tamarack,
                               iv.cruise_altitude, iv.cruise_altitude)
  IN  [stop |-> IF wing_ok THEN "none" ELSE "wing",
       w |-> [wv EXCEPT !.bow_input_flatwing = bow_w,
                        !.fuel_input_flatwing = fuel_w,
                        !.fuel_input_tamarack = fuel_wt,
                        !.cruise_altitude_input_flatwing = cruise_f,
                        !.cruise_altitude_input_tamarack = cruise_t,
                        !.v1_cut_enabled = IF wing_ok THEN @ ELSE FALSE,
                        !.flap_option = IF wing_ok THEN @ ELSE "Flap 0"],
       ss |-> s4,
       comparison_mode |-> comparison_mode,
       bow_f |-> bow_w.val, payload_input_f |-> payload_f,
       fuel_input_f |-> fuel_w.val,
       reserve_fuel_f |-> iv.reserve_fuel, taxi_fuel_f |-> iv.taxi_fuel,
       cruise_altitude_f |-> cruise_f.val,
       bow_t |-> bow_t, payload_input_t |-> payload_t,
       fuel_input_t |-> fuel_wt.val,
       reserve_fuel_t |-> iv.reserve_fuel, taxi_fuel_t |-> iv.taxi_fuel,
       cruise_altitude_t |-> cruise_t.val]

\* app.py 377-451: the Tamarack payload and fuel inputs, given the value
\* bow_t of the Tamarack BOW input.
tamarack_inputs(wv, s3, changed, tv, fc, comparison_mode, mods, iv, bow_w, payload_f, fuel_w, bow_t) ==
  LET payload_t == payload_value(s3.payload_input_tamarack,
                                 Max(0, tv.mzfw - Lb(bow_t)),
                                 wv.weight_option,
                                 changed \/ s3.bow_changed_t)
  IN  wing_type_check(wv,
                      [s3 EXCEPT !.bow_tamarack = bow_t,
                                 !.payload_input_tamarack = payload_t,
                                 !.bow_changed_t = FALSE],
                      comparison_mode, mods, iv, bow_w, payload_f, fuel_w,
                      bow_t, payload_t,
                      number_input(wv.fuel_input_tamarack, iv.fuel,
                                   PyInt(fc.max_fuel)))

\* app.py 259-375: the Flatwing payload and fuel inputs, given the state
\* bow_w of the Flatwing BOW input, and the Tamarack BOW.  bow_changed was
\* reset at line 282, so the update of lines 352-354 finds it False.
flatwing_inputs(wv, s2, changed, edit_bow_t, fc, tv, comparison_mode, mods, iv, bow_w) ==
  LET payload_f == payload_value(s2.payload_input_flatwing,
                                 Max(0, fc.mzfw - Lb(bow_w.val)),
                                 wv.weight_option,
                                 changed \/ s2.bow_changed)
      s3 == [s2 EXCEPT !.payload_input_flatwing = payload_f,
                       !.bow_changed = FALSE,
                       !.initial_values = iv]
  IN  tamarack_inputs(wv, s3, changed, tv, fc, comparison_mode, mods, iv,
                      bow_w, payload_f,
                      number_input(wv.fuel_input_flatwing, iv.fuel,
                                   PyInt(fc.max_fuel)),
                      IF edit_bow_t # Absent THEN edit_bow_t
                      ELSE bow_tamarack(s2, wv.aircraft_model,
                                        comparison_mode, fc, tv))

\* app.py 187-257: the weight option, the initial values and the Flatwing
\* BOW input.
weight_option_inputs(wv, s1, edit_bow_t, fc, tv, comparison_mode, mods) ==
  flatwing_inputs(wv,
                  \* app.py 194 and 214-217
                  [s1 EXCEPT
                     !.last_weight_option = wv.weight_option,
                     !.payload_input_tamarack =
                        IF wv.weight_option = MaxPayloadOption
                           /\ s1.bow_tamarack # Absent
                        THEN PyInt(Max(0, tv.mzfw - Lb(s1.bow_tamarack)))
                        ELSE @],
                  \* app.py 193: weight_option_changed
                  s1.last_weight_option # wv.weight_option,
                  edit_bow_t, fc, tv, comparison_mode, mods,
                  initial_values(fc, wv.weight_option),
                  number_input(wv.bow_input_flatwing, PyInt(fc.bow),
                               PyInt(fc.mzfw)))

\* app.py 90-134: the configuration of the model.
load_config(c, wv, s1, edit_bow_t) ==
  IF mods_available(c, wv.aircraft_model) = {}
     \/ <<wv.aircraft_model, "Flatwing">> \notin c
  THEN ConfigStop(wv, s1)
  ELSE weight_option_inputs(wv, s1, edit_bow_t,
                            AIRCRAFT_CONFIG(<<wv.aircraft_model, "Flatwing">>),
                            tamarack_values(c, wv.aircraft_model),
                            <<wv.aircraft_model, "Tamarack">> \in c,
                            mods_available(c, wv.aircraft_model))

\* app.py 47-458: the sidebar.  edit_bow_t is the value the user typed into
\* the Tamarack BOW input in this run, or Absent (the input is disabled in
\* comparison mode).
Sidebar(c, wv, s_in, edit_bow_t) ==
  load_config(c, wv, last_aircraft(SessionInit(s_in), wv.aircraft_model),
              edit_bow_t)

\* ------------------------------------------------------------------------
\* The body of "if ran_now:" up to the run_simulation calls.
\* ------------------------------------------------------------------------

\* fw_summary / t_summary when the configuration is not part of the run.
NoSummary ==
  [label |-> "None", bow |-> 0, payload |-> 0, fuel |-> 0, reserve_fuel |-> 0,
   taxi_fuel |-> 0, mission_fuel |-> 0, zfw |-> 0, rw |-> 0, tow |-> 0,
   max_payload |-> 0, mzfw |-> 0, mrw |-> 0, mtow |-> 0, max_fuel |-> 0]

\* app.py 563-586: the Flatwing weights from the user's inputs.
fw_summary(sb, fc) ==
  LET zfw_f == Lb(sb.bow_f) + Lb(sb.payload_input_f)
      rw_f == zfw_f + Lb(sb.fuel_input_f)
  IN  [label |-> "Flatwing",
       bow |-> Lb(sb.bow_f),
       payload |-> Lb(sb.payload_input_f),
       fuel |-> Lb(sb.fuel_input_f),
       reserve_fuel |-> Lb(sb.reserve_fuel_f),
       taxi_fuel |-> Lb(sb.taxi_fuel_f),
       mission_fuel |-> Lb(sb.fuel_input_f) - Lb(sb.reserve_fuel_f) - Lb(sb.taxi_fuel_f),
       zfw |-> zfw_f,
       rw |-> rw_f,
       tow |-> rw_f - Lb(sb.taxi_fuel_f),
       max_payload |-> Max(0, fc.mzfw - Lb(sb.bow_f)),
       mzfw |-> fc.mzfw, mrw |-> fc.mrw, mtow |-> fc.mtow,
       max_fuel |-> fc.max_fuel]

\* app.py 588-613: the Tamarack weights.  The payload is first cut down to
\* MZFW minus the configured Tamarack BOW.
t_summary(sb, tv) ==
  LET max_payload_t == Max(0, tv.mzfw - tv.bow)
      payload_input_t == IF Lb(sb.payload_input_t) > max_payload_t
                         THEN PyInt(max_payload_t)
                         ELSE sb.payload_input_t
      zfw_t == Lb(sb.bow_t) + Lb(payload_input_t)
      rw_t == zfw_t + Lb(sb.fuel_input_t)
  IN  [label |-> "Tamarack",
       bow |-> Lb(sb.bow_t),
       payload |-> Lb(payload_input_t),
       fuel |-> Lb(sb.fuel_input_t),
       reserve_fuel |-> Lb(sb.reserve_fuel_t),
       taxi_fuel |-> Lb(sb.taxi_fuel_t),
       mission_fuel |-> Lb(sb.fuel_input_t) - Lb(sb.reserve_fuel_t) - Lb(sb.taxi_fuel_t),
       zfw |-> zfw_t,
       rw |-> rw_t,
       tow |-> rw_t - Lb(sb.taxi_fuel_t),
       max_payload |-> max_payload_t,
       mzfw |-> tv.mzfw, mrw |-> tv.mrw, mtow |-> tv.mtow,
       max_fuel |-> tv.max_fuel]

\* A weight status table whose "Initial Fuel" row has no maximum.
build_weight_df_no_fuel_limit(summary) ==
  LET Row(name, weight, has_max, max_weight) ==
        [Component |-> name, Weight |-> Fmt0(weight),
         HasMax |-> has_max, MaxWeight |-> IF has_max THEN Fmt0(max_weight) ELSE 0]
  IN  << Row("BOW", summary.bow, FALSE, 0),
         Row("Payload", summary.payload, TRUE, summary.max_payload),
         Row("Initial Fuel", summary.fuel, FALSE, 0),
         Row("Reserve Fuel", summary.reserve_fuel, FALSE, 0),
         Row("Taxi Fuel", summary.taxi_fuel, FALSE, 0),
         Row("Mission Fuel", summary.mission_fuel, FALSE, 0),
         Row("ZFW", summary.zfw, TRUE, summary.mzfw),
         Row("Ramp Weight", summary.rw, TRUE, summary.mrw),
         Row("Takeoff Weight", summary.tow, TRUE, summary.mtow) >>

\* app.py 619-647: the weight status table.  Every cell is a string
\* formatted with no decimals; a row with an empty "Max Weight (lb)" cell
\* has HasMax = FALSE.
build_weight_df(summary) ==
  LET Row(name, weight, has_max, max_weight) ==
        [Component |-> name, Weight |-> Fmt0(weight),
         HasMax |-> has_max, MaxWeight |-> IF has_max THEN Fmt0(max_weight) ELSE 0]
  IN  << Row("BOW", summary.bow, FALSE, 0),
         Row("Payload", summary.payload, TRUE, summary.max_payload),
         Row("Initial Fuel", summary.fuel, TRUE, summary.max_fuel),
         Row("Reserve Fuel", summary.reserve_fuel, FALSE, 0),
         Row("Taxi Fuel", summary.taxi_fuel, FALSE, 0),
         Row("Mission Fuel", summary.mission_fuel, FALSE, 0),
         Row("ZFW", summary.zfw, TRUE, summary.mzfw),
         Row("Ramp Weight", summary.rw, TRUE, summary.mrw),
         Row("Takeoff Weight", summary.tow, TRUE, summary.mtow) >>

\* A check that looks at the payload row only.
is_weight_exceeded_payload_only(row) ==
  row.HasMax /\ row.Component = "Payload" /\ row.Weight > row.MaxWeight

\* app.py 661-670
is_weight_exceeded(row) ==
  row.HasMax /\ row.Weight > row.MaxWeight

\* df.apply(is_weight_exceeded, axis=1).any()
any_exceeded(df) ==
  \E i \in 1..Len(df) : is_weight_exceeded(df[i])

\* A listing that ends at the first row over its limit.
RECURSIVE first_violation_only(_, _, _)
first_violation_only(label, df, i) ==
  IF i > Len(df) THEN << >>
  ELSE IF df[i].HasMax /\ df[i].Weight > df[i].MaxWeight
       THEN << [label |-> label, Component |-> df[i].Component,
                Weight |-> df[i].Weight, MaxWeight |-> df[i].MaxWeight,
                excess_amount |-> df[i].Weight - df[i].MaxWeight] >>
       ELSE first_violation_only(label, df, i + 1)

\* app.py 692-698 and 709-715: one st.error per row over its limit, in
\* table order.  label is "" in the single-configuration branch, whose
\* messages do not name the configuration.
RECURSIVE violation_messages(_, _, _)
violation_messages(label, df, i) ==
  IF i > Len(df) THEN << >>
  ELSE LET row == df[i]
           rest == violation_messages(label, df, i + 1)
       IN  IF row.HasMax /\ row.Weight > row.MaxWeight
           THEN << [label |-> label, Component |-> row.Component,
                    Weight |-> row.Weight, MaxWeight |-> row.MaxWeight,
                    excess_amount |-> row.Weight - row.MaxWeight] >> \o rest
           ELSE rest

\* app.py 672-716: the validation of the weight tables.  have_fw / have_t
\* say which summaries were built.
weight_validation(have_fw, fw, have_t, t) ==
  IF have_fw /\ have_t
  THEN LET fw_df == build_weight_df(fw)
           t_df == build_weight_df(t)
           exceeded_any == any_exceeded(fw_df) \/ any_exceeded(t_df)
       IN  [exceeded |-> exceeded_any,
            messages |-> IF exceeded_any
                         THEN violation_messages("Flatwing", fw_df, 1)
                              \o violation_messages("Tamarack", t_df, 1)
                         ELSE << >>]
  ELSE LET df == build_weight_df(IF have_fw THEN fw ELSE t)
           exceeded == any_exceeded(df)
       IN  [exceeded |-> exceeded,
            messages |-> IF exceeded THEN violation_messages("", df, 1) ELSE << >>]

\* One run_simulation call: the wing variant and the arguments taken from
\* the weight inputs.
\* A flap selection passed on in degrees.
takeoff_flap_degrees(flap_option) == IF flap_option = "Flaps 15" THEN 15 ELSE 0

\* app.py 460-462: the takeoff flap argument of the flap selection.
takeoff_flap(flap_option) == IF flap_option = "Flaps 15" THEN 1 ELSE 0

Call(mod, aircraft_model, flap, payload, fuel, taxi_fuel, reserve_fuel, cruise_altitude, v1_cut) ==
  [mod |-> mod, aircraft_model |-> aircraft_model, takeoff_flap |-> flap,
   payload |-> payload,
   fuel |-> fuel, taxi_fuel |-> taxi_fuel, reserve_fuel |-> reserve_fuel,
   cruise_altitude |-> cruise_altitude, v1_cut_enabled |-> v1_cut]

\* Calls that are given the mission fuel in the place of the initial fuel.
run_simulation_calls_mission_fuel(sb, wing_type, mods, aircraft_model, v1_cut) ==
  LET tam == Call("Tamarack", aircraft_model, takeoff_flap(sb.w.flap_option),
                  sb.payload_input_t,
                  sb.fuel_input_t - sb.reserve_fuel_t - sb.taxi_fuel_t,
                  sb.taxi_fuel_t, sb.reserve_fuel_t, sb.cruise_altitude_t, v1_cut)
      flat == Call("Flatwing", aircraft_model, takeoff_flap(sb.w.flap_option),
                   sb.payload_input_f,
                   sb.fuel_input_f - sb.reserve_fuel_f - sb.taxi_fuel_f,
                   sb.taxi_fuel_f, sb.reserve_fuel_f, sb.cruise_altitude_f, v1_cut)
  IN  IF wing_type = "Comparison"
      THEN (IF "Tamarack" \in mods THEN << tam >> ELSE << >>)
           \o (IF "Flatwing" \in mods THEN << flat >> ELSE << >>)
      ELSE IF wing_type = "Tamarack" THEN << tam >>
      ELSE << flat >>

\* app.py 539-556 and 724-748: the run_simulation calls of the wing type, in
\* call order.  payload_t and fuel_t are the values read at lines 543-556.
run_simulation_calls(sb, wing_type, mods, aircraft_model, v1_cut) ==
  LET tam == Call("Tamarack", aircraft_model, takeoff_flap(sb.w.flap_option),
                  sb.payload_input_t, sb.fuel_input_t,
                  sb.taxi_fuel_t, sb.reserve_fuel_t, sb.cruise_altitude_t, v1_cut)
      flat == Call("Flatwing", aircraft_model, takeoff_flap(sb.w.flap_option),
                   sb.payload_input_f, sb.fuel_input_f,
                   sb.taxi_fuel_f, sb.reserve_fuel_f, sb.cruise_altitude_f, v1_cut)
  IN  IF wing_type = "Comparison"
      THEN (IF "Tamarack" \in mods THEN << tam >> ELSE << >>)
           \o (IF "Flatwing" \in mods THEN << flat >> ELSE << >>)
      ELSE IF wing_type = "Tamarack" THEN << tam >>
      ELSE << flat >>

\* ------------------------------------------------------------------------
\* run_simulation: the segment state machine (spec.md 4.5 and 7).
\* ------------------------------------------------------------------------

\* Fuel burned by one integration step of the model, in pounds.
FuelPerStep == 200

\* Segment numbers.
GroundRoll == 0
Segment3 == 3
CruiseLevel == 6
CruiseStep == 7
Landing == 12

\* The run that is not running.
NoFlight == [status |-> "none", segment |-> 0, fuel |-> 0, pos |-> 0]

\* results == {} in the script.
NoResults ==
  [have |-> FALSE, error |-> "", exceedances |-> << >>, V1Cut |-> FALSE,
   LastPos |-> 0, EndSegment |-> 0]

\* One row of the trajectory DataFrame.
Sample(f) == [Segment |-> f.segment, Fuel |-> f.fuel, Pos |-> f.pos]

\* FlightState at takeoff-roll start.
initial_state(call) ==
  [status |-> "running", segment |-> GroundRoll, fuel |-> call.fuel, pos |-> 0]

\* The reserve + taxi floor of the run.
fuel_floor(call) == call.reserve_fuel + call.taxi_fuel

\* Segments in which the descent may go back to the level cruise.
next_segments_descent_restart(seg) ==
  IF seg = CruiseLevel THEN {CruiseLevel, CruiseStep}
  ELSE IF seg = CruiseStep THEN {CruiseLevel, 8}
  ELSE IF seg = 8 THEN {CruiseLevel, 9}
  ELSE {seg + 1}

\* The segments a step may continue in: the level cruise lasts as long as
\* its exit condition is unmet; the step climb loops back to level cruise
\* or hands over to the descent.
next_segments(seg) ==
  IF seg = CruiseLevel THEN {CruiseLevel, CruiseStep}
  ELSE IF seg = CruiseStep THEN {CruiseLevel, 8}
  ELSE {seg + 1}

\* The climb segments, whose required gradient is checked.
ClimbSegments == 1..5

\* A step that finds no way out of the level cruise.
segment_step_stuck_in_cruise(f, call) ==
  IF f.segment = CruiseLevel THEN {}
  ELSE IF f.fuel - FuelPerStep <= fuel_floor(call)
       THEN {[f EXCEPT !.status = "fuel_exhausted"]}
       ELSE IF f.segment = Landing \/ (f.segment = Segment3 /\ call.v1_cut_enabled)
            THEN {[f EXCEPT !.status = "terminal"]}
            ELSE {[f EXCEPT !.segment = n, !.fuel = f.fuel - FuelPerStep,
                            !.pos = f.pos + 1] : n \in next_segments(f.segment)}

\* One integration step of a running flight: the flight states it can
\* lead to.  A step burns fuel; reaching the reserve + taxi floor ends the
\* run with a fuel-exhaustion error, a non-positive climb gradient with an
\* exceedance, the close of Segment 3 with the engine-out flag or the end
\* of the landing roll with the terminal state.
segment_step(f, call) ==
  LET fuel2 == f.fuel - FuelPerStep
      gradient == IF f.segment \in ClimbSegments
                  THEN {[f EXCEPT !.status = "exceedance"]}
                  ELSE {}
      ended == (f.segment = Segment3 /\ call.v1_cut_enabled) \/ f.segment = Landing
  IN  IF fuel2 <= fuel_floor(call)
      THEN {[f EXCEPT !.status = "fuel_exhausted"]}
      ELSE gradient \cup
           (IF ended THEN {[f EXCEPT !.status = "terminal"]}
            ELSE {[f EXCEPT !.segment = n, !.fuel = fuel2, !.pos = f.pos + 1] :
                    n \in next_segments(f.segment)})

\* The values the "V1 Cut" marker of the results can take: set by a run
\* that ends at the close of Segment 3 with the engine-out flag, absent
\* without the flag; spec.md does not say whether a run that aborts under
\* the flag carries it.
v1_cut_markers(f, call) ==
  IF ~ call.v1_cut_enabled THEN {FALSE}
  ELSE IF f.status = "terminal" THEN {TRUE}
  ELSE {TRUE, FALSE}

\* The ResultsSummary of a finished run.
finalize(f, call, marker) ==
  [have |-> TRUE,
   error |-> IF f.status = "fuel_exhausted" THEN "Fuel exhausted" ELSE "",
   exceedances |-> IF f.status = "exceedance"
                   THEN << "Climb gradient not positive" >> ELSE << >>,
   V1Cut |-> marker,
   LastPos |-> f.pos,
   EndSegment |-> f.segment]

\* ------------------------------------------------------------------------
\* After the runs: app.py 750-756 and the archived display functions.
\* ------------------------------------------------------------------------

\* data[data['Segment'] == 3].index[-1], or 0 when no row is in Segment 3.
end_idx(data) ==
  LET in3 == {i \in 1..Len(data) : data[i].Segment = Segment3}
  IN  IF in3 = {} THEN 0
      ELSE (CHOOSE i \in in3 : \A j \in in3 : j <= i) - 1

\* A cut that leaves out the row at end_idx: data.iloc[:end_idx].
v1_cut_truncate_short(data, v1_cut_enabled) ==
  IF v1_cut_enabled /\ data # << >>
  THEN SubSeq(data, 1, Min(end_idx(data), Len(data)))
  ELSE data

\* app.py 750-756: data.iloc[:end_idx + 1] when the V1 cut is enabled and
\* the DataFrame is not empty.
v1_cut_truncate(data, v1_cut_enabled) ==
  IF v1_cut_enabled /\ data # << >>
  THEN SubSeq(data, 1, Min(end_idx(data) + 1, Len(data)))
  ELSE data

\* display.py 1046-1141 (one column of the later archived copy): the
\* sections written for a configuration's results.
display_sections(results) ==
  IF ~ results.have THEN {}
  ELSE {"Takeoff"} \cup
       (IF results.V1Cut THEN {"V1 Cut"}
        ELSE {"Climb", "Cruise", "Descent", "Landing", "Total Flight"})

\* A map without the marker.
flatwing_fuel_exhaustion_unmarked(flatwing_data, flatwing_results) ==
  Absent

\* display.py 104-108 and 185-197 (the first archived copy): the position
\* of the "Flatwing Fuel Exhausted" marker on the map, or Absent.
flatwing_fuel_exhaustion(flatwing_data, flatwing_results) ==
  IF flatwing_data # << >> /\ flatwing_results.error # ""
  THEN flatwing_results.LastPos
  ELSE Absent

\* display.py 254-404 (the first archived copy): what the function shows
\* below the map.  Exceedances are reported and the function returns; an
\* error is reported and the function goes on.
display_simulation_results(tamarack_data, tamarack_results, flatwing_data, flatwing_results) ==
  LET any == tamarack_results.have \/ flatwing_results.have
      t_return == any /\ tamarack_results.exceedances # << >>
      f_return == any /\ ~ t_return /\ flatwing_results.exceedances # << >>
      returned == t_return \/ f_return
  IN  [errors |->
         (IF t_return THEN tamarack_results.exceedances
          ELSE IF any /\ tamarack_results.error # ""
               THEN << tamarack_results.error >> ELSE << >>)
         \o (IF f_return THEN flatwing_results.exceedances
             ELSE IF any /\ ~ t_return /\ flatwing_results.error # ""
                  THEN << flatwing_results.error >> ELSE << >>),
       final_tamarack |-> any /\ ~ returned /\ tamarack_data # << >>,
       final_flatwing |-> any /\ ~ returned /\ flatwing_data # << >>,
       charts |-> ~ returned /\ tamarack_data # << >> /\ flatwing_data # << >>]

\* ------------------------------------------------------------------------
\* The state of one browser session and of the script run it last caused.
\* ------------------------------------------------------------------------

VARIABLES
  cfg,               \* the keys present in AIRCRAFT_CONFIG
  w,                 \* the widget values Streamlit keeps between reruns
  ss,                \* st.session_state as written by the script
  pc,                \* "load", "idle" (waiting for the user) or "sim"
  stop,              \* where the last script run stopped, or "none"
  ran_now,           \* the Run Simulation button of the last script run
  fw_summary_v,      \* fw_summary of the last run (NoSummary when None)
  t_summary_v,       \* t_summary of the last run (NoSummary when None)
  violations,        \* the st.error lines of the weight validation
  calls,             \* the run_simulation calls made so far in this run
  queue,             \* the run_simulation calls still to be made
  fs,                \* FlightState of the run_simulation call in progress
  traj,              \* its trajectory so far
  tamarack_data, tamarack_results,
  flatwing_data, flatwing_results,
  sim,               \* st.session_state['sim']: << >> or the stored run
  global_timestamp,  \* the output timestamp of the simulation module
  clock,             \* the time of day the timestamp is taken from
  runner             \* per session: how far its pressed run has got

\* What the simulation module and the sessions of one server process share.
process_vars == << global_timestamp, clock, runner >>

vars ==
  << cfg, w, ss, pc, stop, ran_now, fw_summary_v, t_summary_v, violations,
     calls, queue, fs, traj, tamarack_data, tamarack_results,
     flatwing_data, flatwing_results, sim, global_timestamp, clock, runner >>

\* The browser sessions one server process serves.
Sessions == {"A", "B"}

\* A session that has not pressed Run Simulation.
IdleRunner ==
  [at |-> "idle", tamarack_output_file |-> Absent,
   flatwing_output_file |-> Absent, output_dir |-> Absent]

\* The configuration tables considered: the table as shipped, and a table
\* that lacks the Tamarack entry of one model and the Flatwing entry of
\* another.
ConfigTables ==
  { ALL_KEYS, ALL_KEYS \ {<<"CJ1", "Tamarack">>, <<"M2", "Flatwing">>} }

\* The values the user picks or types.
Models == {"CJ1", "M2"}
BowChoices == {7000}
PayloadChoicesF == {1150}
PayloadChoicesT == {1475}
FuelChoices == {100}

\* st.session_state of a new session.
EmptySession ==
  [last_aircraft |-> "", bow_tamarack |-> Absent,
   payload_input_flatwing |-> Absent, payload_input_tamarack |-> Absent,
   last_weight_option |-> "", has_last_weight_option |-> FALSE,
   bow_changed |-> FALSE, bow_changed_t |-> FALSE,
   initial_values |-> [payload |-> 0, fuel |-> 0, taxi_fuel |-> 0,
                       reserve_fuel |-> 0, cruise_altitude |-> 0]]

\* The widgets of a new session: every widget at its default.
DefaultWidgets ==
  [aircraft_model |-> "CJ1", weight_option |-> ManualInput,
   wing_type |-> "Flatwing", v1_cut_enabled |-> FALSE,
   flap_option |-> "Flap 0",
   bow_input_flatwing |-> NoWidget,
   fuel_input_flatwing |-> NoWidget,
   fuel_input_tamarack |-> NoWidget,
   cruise_altitude_input_flatwing |-> NoWidget,
   cruise_altitude_input_tamarack |-> NoWidget]

Init ==
  /\ cfg \in ConfigTables
  /\ w = DefaultWidgets
  /\ ss = EmptySession
  /\ pc = "load"
  /\ stop = "none"
  /\ ran_now = FALSE
  /\ fw_summary_v = NoSummary
  /\ t_summary_v = NoSummary
  /\ violations = << >>
  /\ calls = << >>
  /\ queue = << >>
  /\ fs = NoFlight
  /\ traj = << >>
  /\ tamarack_data = << >>
  /\ tamarack_results = NoResults
  /\ flatwing_data = << >>
  /\ flatwing_results = NoResults
  /\ sim = << >>
  /\ global_timestamp = Absent
  /\ clock = 0
  /\ runner = [s \in Sessions |-> IdleRunner]

\* ------------------------------------------------------------------------
\* One script run.  Streamlit reruns app.py from the top after every widget
\* event; wv and s are the widget and session state the event left behind,
\* pressed says whether the event was the Run Simulation button.
\* ------------------------------------------------------------------------

\* app.py 672-798: the outcome of the validation val of the summaries fw
\* and t, and the run_simulation calls that follow it.
validate_and_run(sb, pressed, fw, t, val) ==
  /\ w' = sb.w
  /\ ss' = sb.ss
  /\ ran_now' = pressed
  /\ stop' = IF pressed /\ val.exceeded THEN "weights" ELSE sb.stop
  /\ fw_summary_v' = fw
  /\ t_summary_v' = t
  /\ violations' = val.messages
  /\ calls' = << >>
  /\ queue' = IF pressed /\ sb.stop = "none" /\ ~ val.exceeded
              THEN run_simulation_calls(sb, sb.w.wing_type,
                                        mods_available(cfg, sb.w.aircraft_model),
                                        sb.w.aircraft_model, sb.w.v1_cut_enabled)
              ELSE << >>
  /\ pc' = IF pressed /\ sb.stop = "none" /\ ~ val.exceeded
           THEN "sim" ELSE "idle"
  /\ fs' = NoFlight
  /\ traj' = << >>
  /\ tamarack_data' = << >>
  /\ tamarack_results' = NoResults
  /\ flatwing_data' = << >>
  /\ flatwing_results' = NoResults
  /\ cfg' = config_lookups(cfg, sb.w.aircraft_model)
  /\ UNCHANGED sim
  /\ UNCHANGED process_vars

\* The validation of a run that does not reach it.
NoValidation == [exceeded |-> FALSE, messages |-> << >>]

\* app.py 482-716: the body of "if ran_now:".  have_fw and have_t are the
\* conditions of lines 563 and 588.
weight_summaries(sb, pressed, have_fw, have_t, fw, t) ==
  validate_and_run(sb, pressed, fw, t,
                   IF pressed /\ sb.stop = "none"
                   THEN weight_validation(have_fw, fw, have_t, t)
                   ELSE NoValidation)

after_sidebar(sb, pressed, have_fw, have_t) ==
  weight_summaries(sb, pressed, have_fw, have_t,
    IF have_fw
    THEN fw_summary(sb, AIRCRAFT_CONFIG(<<sb.w.aircraft_model, "Flatwing">>))
    ELSE NoSummary,
    IF have_t
    THEN t_summary(sb, tamarack_values(cfg, sb.w.aircraft_model))
    ELSE NoSummary)

main_area(sb, pressed) ==
  after_sidebar(sb, pressed,
    pressed /\ sb.stop = "none" /\ sb.w.wing_type \in {"Flatwing", "Comparison"},
    pressed /\ sb.stop = "none" /\ sb.w.wing_type \in {"Tamarack", "Comparison"}
      /\ <<sb.w.aircraft_model, "Tamarack">> \in cfg)

Script(wv, s, pressed, edit_bow_t) ==
  main_area(Sidebar(cfg, wv, s, edit_bow_t), pressed)

\* The weight widgets were created by the last script run.
weights_rendered == stop # "config"

\* The widgets below the wing type check were created by the last run.
all_rendered == stop \in {"none", "weights"}

\* The first script run of the session.
Load ==
  /\ pc = "load"
  /\ Script(w, ss, FALSE, Absent)

\* The user picks another aircraft model (app.py 62-63).
SelectModel ==
  /\ pc = "idle"
  /\ \E m \in Models \ {w.aircraft_model} :
       Script([w EXCEPT !.aircraft_model = m], ss, FALSE, Absent)

\* The user picks another weight configuration (app.py 187-191).
SelectWeightOption ==
  /\ pc = "idle" /\ weights_rendered
  /\ \E o \in WeightOptions \ {w.weight_option} :
       Script([w EXCEPT !.weight_option = o], ss, FALSE, Absent)

\* The user picks another wing type (app.py 454).
SelectWing ==
  /\ pc = "idle" /\ weights_rendered
  /\ \E t \in WingTypes \ {w.wing_type} :
       Script([w EXCEPT !.wing_type = t], ss, FALSE, Absent)

\* The user ticks or unticks the V1 cut checkbox (app.py 474).
ToggleV1Cut ==
  /\ pc = "idle" /\ all_rendered
  /\ Script([w EXCEPT !.v1_cut_enabled = ~ @], ss, FALSE, Absent)

\* The user types a Flatwing BOW; on_change sets bow_changed (app.py 246-257).
EditBowF ==
  /\ pc = "idle" /\ weights_rendered
  /\ \E v \in BowChoices :
       /\ v # w.bow_input_flatwing.val
       /\ v <= w.bow_input_flatwing.sig[2]
       /\ Script([w EXCEPT !.bow_input_flatwing.val = v],
                 [ss EXCEPT !.bow_changed = TRUE], FALSE, Absent)

\* The user types a Flatwing payload within the widget's range
\* (app.py 284-294).
EditPayloadF ==
  /\ pc = "idle" /\ weights_rendered
  /\ \E v \in PayloadChoicesF :
       /\ v # ss.payload_input_flatwing
       /\ Lb(v) <= Max(0, AIRCRAFT_CONFIG(<<w.aircraft_model, "Flatwing">>).mzfw
                            - Lb(w.bow_input_flatwing.val))
       /\ Script(w, [ss EXCEPT !.payload_input_flatwing = v], FALSE, Absent)

\* The user types a Tamarack payload within the widget's range
\* (app.py 402-412).
EditPayloadT ==
  /\ pc = "idle" /\ weights_rendered
  /\ \E v \in PayloadChoicesT :
       /\ v # ss.payload_input_tamarack
       /\ Lb(v) <= Max(0, tamarack_values(cfg, w.aircraft_model).mzfw
                            - Lb(ss.bow_tamarack))
       /\ Script(w, [ss EXCEPT !.payload_input_tamarack = v], FALSE, Absent)

\* The user types an initial fuel within the widget's range (app.py 296-306
\* and 414-424).
EditFuelF ==
  /\ pc = "idle" /\ weights_rendered
  /\ \E v \in FuelChoices :
       /\ v # w.fuel_input_flatwing.val
       /\ v <= w.fuel_input_flatwing.sig[2]
       /\ Script([w EXCEPT !.fuel_input_flatwing.val = v], ss, FALSE, Absent)

EditFuelT ==
  /\ pc = "idle" /\ weights_rendered
  /\ \E v \in FuelChoices :
       /\ v # w.fuel_input_tamarack.val
       /\ v <= w.fuel_input_tamarack.sig[2]
       /\ Script([w EXCEPT !.fuel_input_tamarack.val = v], ss, FALSE, Absent)

\* The user types a Tamarack BOW; the input is disabled in comparison mode
\* (app.py 359-375).
EditBowT ==
  /\ pc = "idle" /\ weights_rendered
  /\ <<w.aircraft_model, "Tamarack">> \notin cfg
  /\ \E v \in BowChoices :
       /\ v # ss.bow_tamarack
       /\ Lb(v) <= tamarack_values(cfg, w.aircraft_model).mzfw
       /\ Script(w, [ss EXCEPT !.bow_changed_t = TRUE], FALSE, v)

\* The user presses Run Simulation (app.py 482).
PressRun ==
  /\ pc = "idle" /\ all_rendered
  /\ Script(w, ss, TRUE, Absent)

\* ------------------------------------------------------------------------
\* The run_simulation calls of a validated run, one after the other, and
\* what the script does with their results.
\* ------------------------------------------------------------------------

\* app.py 724-748: the next run_simulation call starts.
SimStart ==
  /\ pc = "sim" /\ fs.status = "none" /\ queue # << >>
  /\ fs' = initial_state(Head(queue))
  /\ traj' = << Sample(initial_state(Head(queue))) >>
  /\ calls' = Append(calls, Head(queue))
  /\ UNCHANGED << cfg, w, ss, pc, stop, ran_now, fw_summary_v, t_summary_v,
                  violations, queue, tamarack_data, tamarack_results,
                  flatwing_data, flatwing_results >>
  /\ UNCHANGED sim
  /\ UNCHANGED process_vars

\* One integration step of the call in progress.  A step that ends the run
\* returns the trajectory and the results to the script.
SimStep ==
  /\ pc = "sim" /\ fs.status = "running"
  /\ \E f \in segment_step(fs, Head(queue)) :
     \E marker \in v1_cut_markers(f, Head(queue)) :
       IF f.status = "running"
       THEN /\ fs' = f
            /\ traj' = Append(traj, Sample(f))
            /\ UNCHANGED << queue, tamarack_data, tamarack_results,
                            flatwing_data, flatwing_results >>
       ELSE /\ fs' = NoFlight
            /\ traj' = << >>
            /\ queue' = Tail(queue)
            /\ IF Head(queue).mod = "Tamarack"
               THEN /\ tamarack_data' = traj
                    /\ tamarack_results' = finalize(f, Head(queue), marker)
                    /\ UNCHANGED << flatwing_data, flatwing_results >>
               ELSE /\ flatwing_data' = traj
                    /\ flatwing_results' = finalize(f, Head(queue), marker)
                    /\ UNCHANGED << tamarack_data, tamarack_results >>
  /\ UNCHANGED << cfg, w, ss, pc, stop, ran_now, fw_summary_v, t_summary_v,
                  violations, calls >>
  /\ UNCHANGED sim
  /\ UNCHANGED process_vars

\* app.py 750-756: after the last call the script cuts the trajectories of
\* a V1 cut run and hands them to display_simulation_results.  The copy
\* the script keeps in st.session_state['sim'] is left to DisplayAndStore.
Finish ==
  /\ pc = "sim" /\ fs.status = "none" /\ queue = << >>
  /\ tamarack_data' = v1_cut_truncate(tamarack_data, w.v1_cut_enabled)
  /\ flatwing_data' = v1_cut_truncate(flatwing_data, w.v1_cut_enabled)
  /\ pc' = "idle"
  /\ UNCHANGED << cfg, w, ss, stop, ran_now, fw_summary_v, t_summary_v,
                  violations, calls, queue, fs, traj, tamarack_results,
                  flatwing_results >>
  /\ UNCHANGED sim
  /\ UNCHANGED process_vars

Next ==
  \/ Load
  \/ SelectModel
  \/ SelectWeightOption
  \/ SelectWing
  \/ ToggleV1Cut
  \/ EditBowF
  \/ EditPayloadF
  \/ EditPayloadT
  \/ EditFuelF
  \/ EditFuelT
  \/ EditBowT
  \/ PressRun
  \/ SimStart
  \/ SimStep
  \/ Finish

Spec == Init /\ [][Next]_vars

\* ------------------------------------------------------------------------
\* The body of "if ran_now:" on weight inputs drawn freely.  The ranges of
\* the number inputs keep a payload or a fuel above its maximum from ever
\* reaching the validation; InputSpec hands the validation such values too.
\* ------------------------------------------------------------------------

InputPayloads == {0, 1150, 1151, 1475}
InputFuels == {100, 3440, 3441}

ValidateInputs ==
  /\ pc = "load"
  /\ \E wt \in WingTypes, pf \in InputPayloads, ff \in InputFuels,
        pt \in InputPayloads, ft \in InputFuels :
       LET sb == Sidebar(cfg, [DefaultWidgets EXCEPT !.wing_type = wt],
                         EmptySession, Absent)
       IN  /\ sb.stop = "none"
           /\ main_area([sb EXCEPT
                           !.payload_input_f = pf, !.fuel_input_f = ff,
                           !.payload_input_t = pt, !.fuel_input_t = ft,
                           !.ss.payload_input_flatwing = pf,
                           !.ss.payload_input_tamarack = pt,
                           !.w.fuel_input_flatwing.val = ff,
                           !.w.fuel_input_tamarack.val = ft],
                        TRUE)

InputSpec == Init /\ [][ValidateInputs]_vars

\* ------------------------------------------------------------------------
\* Properties of the weight validation.
\* ------------------------------------------------------------------------

\* The weight summaries the last script run built.
Summaries == {sm \in {fw_summary_v, t_summary_v} : sm.label # "None"}

\* The five limits of a weight summary.
RowsWithinLimits(sm) ==
  /\ sm.payload <= sm.max_payload
  /\ sm.fuel <= sm.max_fuel
  /\ sm.zfw <= sm.mzfw
  /\ sm.rw <= sm.mrw
  /\ sm.tow <= sm.mtow

NoCall == calls = << >> /\ queue = << >> /\ pc # "sim"

\* C1: run_simulation is called, or about to be called, only when every row
\* of the weight table of every configuration of the run is within its
\* limit; when a row is over its limit the script stops at the validation
\* and makes no run_simulation call.
C1_RunOnlyWithinLimits ==
  \A sm \in Summaries :
    /\ (calls # << >> \/ queue # << >>) => RowsWithinLimits(sm)
    /\ ~ RowsWithinLimits(sm) => (stop = "weights" /\ NoCall)

\* A run blocked by a Flatwing ramp weight over MRW.
C1_Witness ==
  /\ ran_now /\ stop = "weights"
  /\ fw_summary_v.label = "Flatwing" /\ fw_summary_v.rw > fw_summary_v.mrw
  /\ NoCall

\* The "Payload" violation of a payload p (lb) over the maximum payload of
\* the summary sm.
PayloadViolation(p, sm) ==
  /\ stop = "weights" /\ NoCall
  /\ \E i \in 1..Len(violations) :
       /\ violations[i].Component = "Payload"
       /\ violations[i].excess_amount = p - Fmt0(sm.max_payload)

\* C2: for the Flatwing and for the Tamarack of a run alike, a payload
\* input above the maximum payload MZFW - BOW of the configuration is
\* rejected by the validation with a violation that names "Payload" and
\* gives the excess, and no simulation is run.
C2_PayloadAboveMaxRejected ==
  ran_now =>
    /\ (fw_summary_v.label = "Flatwing"
          /\ Lb(ss.payload_input_flatwing) > fw_summary_v.max_payload)
         => PayloadViolation(ss.payload_input_flatwing, fw_summary_v)
    /\ (t_summary_v.label = "Tamarack"
          /\ Lb(ss.payload_input_tamarack) > t_summary_v.max_payload)
         => PayloadViolation(ss.payload_input_tamarack, t_summary_v)

\* The violation lines that name the component c of the summary sm.
ViolationsOf(sm, c) ==
  LET label == IF Cardinality(Summaries) = 2 THEN sm.label ELSE ""
  IN  {i \in 1..Len(violations) :
         violations[i].label = label /\ violations[i].Component = c}

\* C3: an initial fuel equal to the maximum fuel of the configuration
\* passes the validation (no "Initial Fuel" violation, and the run goes
\* ahead when no other row is over its limit); an initial fuel above the
\* maximum is rejected with an "Initial Fuel" violation and no
\* run_simulation call.
C3_FuelAtMaxPassesAboveRejected ==
  ran_now =>
    /\ \A sm \in Summaries :
         /\ sm.fuel = sm.max_fuel => ViolationsOf(sm, "Initial Fuel") = {}
         /\ sm.fuel > sm.max_fuel =>
              /\ stop = "weights" /\ NoCall
              /\ ViolationsOf(sm, "Initial Fuel") # {}
    /\ (Summaries # {} /\ \A sm \in Summaries : RowsWithinLimits(sm))
         => (stop = "none" /\ (queue # << >> \/ calls # << >>))

\* A comparison run with the Flatwing fuel at the maximum and the Tamarack
\* fuel one pound above it: only the Tamarack fuel is rejected.
C3_Witness ==
  /\ ran_now /\ stop = "weights"
  /\ fw_summary_v.label = "Flatwing"
  /\ fw_summary_v.fuel = fw_summary_v.max_fuel
  /\ t_summary_v.label = "Tamarack"
  /\ t_summary_v.fuel = t_summary_v.max_fuel + Lb(1)
  /\ ViolationsOf(t_summary_v, "Initial Fuel") # {}

\* The components of the weight table that have a limit, with the weight
\* and the limit of each in the summary sm.
LimitedRows(sm) ==
  { [Component |-> "Payload", weight |-> sm.payload, limit |-> sm.max_payload],
    [Component |-> "Initial Fuel", weight |-> sm.fuel, limit |-> sm.max_fuel],
    [Component |-> "ZFW", weight |-> sm.zfw, limit |-> sm.mzfw],
    [Component |-> "Ramp Weight", weight |-> sm.rw, limit |-> sm.mrw],
    [Component |-> "Takeoff Weight", weight |-> sm.tow, limit |-> sm.mtow] }

\* C4: when the validation fails, every row over its limit of every
\* configuration of the run has exactly one violation line, which gives
\* the weight, the limit and the excess; a row within its limit has none;
\* in a comparison run the lines of the Flatwing and of the Tamarack are
\* all there, and no simulation is run.
C4_OneViolationPerExceededRow ==
  stop = "weights" =>
    /\ NoCall
    /\ violations # << >>
    /\ \A sm \in Summaries : \A r \in LimitedRows(sm) :
         IF r.weight > r.limit
         THEN /\ Cardinality(ViolationsOf(sm, r.Component)) = 1
              /\ \A i \in ViolationsOf(sm, r.Component) :
                   /\ Lb(violations[i].Weight) = r.weight
                   /\ violations[i].MaxWeight = Fmt0(r.limit)
                   /\ violations[i].excess_amount = Fmt0(r.weight) - Fmt0(r.limit)
         ELSE ViolationsOf(sm, r.Component) = {}
    /\ Len(violations) =
         Cardinality(UNION { { <<sm.label, r.Component>> :
                                 r \in {x \in LimitedRows(sm) : x.weight > x.limit} } :
                               sm \in Summaries })

\* A comparison run rejected with violations of both configurations, more
\* than one of them for the Flatwing.
C4_Witness ==
  /\ stop = "weights"
  /\ Cardinality(Summaries) = 2
  /\ Cardinality({i \in 1..Len(violations) : violations[i].label = "Flatwing"}) >= 2
  /\ \E i \in 1..Len(violations) : violations[i].label = "Tamarack"

\* The wing variants the selected wing type asks to simulate.
requested_variants ==
  IF w.wing_type = "Comparison" THEN WingVariants ELSE {w.wing_type}

\* C5: after every script run, when AIRCRAFT_CONFIG has no entry for the
\* selected model and a wing variant that is to be simulated, the script
\* has stopped with a configuration error and makes no run_simulation
\* call: it neither goes on with another configuration's values nor leaves
\* the variant out of the run.
C5_MissingKeyIsFatal ==
  (pc # "load" /\ \E m \in requested_variants : <<w.aircraft_model, m>> \notin cfg)
    => (stop \in {"config", "wing"} /\ NoCall)

\* ------------------------------------------------------------------------
\* Properties of the runs and of what the script hands on.
\* ------------------------------------------------------------------------

\* The script has handed the trajectories of a validated run to the
\* display.
HandedOn == pc = "idle" /\ ran_now /\ stop = "none"

LastOf(data) == data[Len(data)]

HasSegment3(data) == \E i \in 1..Len(data) : data[i].Segment = Segment3

\* A handed-on trajectory that ends at the close of Segment 3.
EndsAtSegment3(data) ==
  /\ data # << >>
  /\ LastOf(data).Segment = Segment3
  /\ \A i \in 1..Len(data) : data[i].Segment <= Segment3

\* The results carry the marker and the display shows no climb, cruise or
\* descent section for them.
V1CutShown(results) ==
  /\ results.V1Cut
  /\ display_sections(results) \cap {"Climb", "Cruise", "Descent"} = {}

\* C6 as stated: with the V1 cut enabled, the trajectory handed on for each
\* simulated configuration ends at the close of Segment 3 (last sample in
\* Segment 3, none of a later segment), its results carry the "V1 Cut"
\* marker and no climb, cruise or descent metrics are shown.
C6_V1CutEndsAtSegment3 ==
  (HandedOn /\ w.v1_cut_enabled) =>
    /\ tamarack_results.have =>
         (EndsAtSegment3(tamarack_data) /\ V1CutShown(tamarack_results))
    /\ flatwing_results.have =>
         (EndsAtSegment3(flatwing_data) /\ V1CutShown(flatwing_results))

\* What the cut of app.py 750-756 makes of the trajectory raw of a run with
\* the results given.
V1CutOutcome(raw, handed, results) ==
  results.have =>
    /\ HasSegment3(raw) =>
         /\ EndsAtSegment3(handed)
         /\ \A i \in 1..Len(handed) : handed[i] = raw[i]
         /\ \A i \in (Len(handed) + 1)..Len(raw) : raw[i].Segment # Segment3
    /\ (~ HasSegment3(raw) /\ raw # << >>) => handed = << raw[1] >>
    /\ (results.error = "" /\ results.exceedances = << >>) =>
         (HasSegment3(raw) /\ V1CutShown(results))

\* C6, amended: with the V1 cut enabled, the trajectory handed on for a
\* simulated configuration whose run reached Segment 3 is the run's
\* trajectory up to its last Segment-3 sample; a run that aborted before
\* Segment 3 is handed on as its first sample alone; a run that ended at
\* the close of Segment 3 without error or exceedance has reached Segment
\* 3, carries the "V1 Cut" marker and has no climb, cruise or descent
\* section shown.
C6_V1CutEndsAtLastSegment3Sample ==
  [][(pc = "sim" /\ pc' = "idle" /\ w.v1_cut_enabled) =>
       /\ V1CutOutcome(tamarack_data, tamarack_data', tamarack_results)
       /\ V1CutOutcome(flatwing_data, flatwing_data', flatwing_results)]_vars

\* A comparison run with the V1 cut handed on with both trajectories ending
\* in Segment 3 and both results marked.
C6_Witness ==
  /\ HandedOn /\ w.v1_cut_enabled
  /\ tamarack_results.have /\ flatwing_results.have
  /\ EndsAtSegment3(tamarack_data) /\ EndsAtSegment3(flatwing_data)
  /\ V1CutShown(tamarack_results) /\ V1CutShown(flatwing_results)

\* The segment ids of a trajectory never decrease from one sample to the
\* next, except from the step climb 7 back to the level cruise 6.
SegmentsInOrder(data) ==
  /\ \A i \in 1..Len(data) : data[i].Segment \in GroundRoll..Landing
  /\ \A i \in 1..(Len(data) - 1) :
       \/ data[i + 1].Segment >= data[i].Segment
       \/ (data[i].Segment = CruiseStep /\ data[i + 1].Segment = CruiseLevel)

\* C7: in the trajectory of a run in progress and in every trajectory kept
\* or handed on by the script, the segment id (0..12) never decreases
\* between consecutive samples except for the step-climb loop from
\* segment 7 back to segment 6.
C7_SegmentIdNonDecreasing ==
  /\ SegmentsInOrder(traj)
  /\ SegmentsInOrder(tamarack_data)
  /\ SegmentsInOrder(flatwing_data)

\* A handed-on Flatwing trajectory with a step-climb loop that went on into
\* the descent.
C7_Witness ==
  /\ HandedOn
  /\ \E i \in 1..(Len(flatwing_data) - 1) :
       /\ flatwing_data[i].Segment = CruiseStep
       /\ flatwing_data[i + 1].Segment = CruiseLevel
  /\ LastOf(flatwing_data).Segment > CruiseStep

FuelNonNegative(data) == \A i \in 1..Len(data) : data[i].Fuel >= 0

\* C8: the fuel remaining is >= 0 at every sample of every trajectory, and
\* a step of a run that would take the fuel below zero adds no sample: it
\* ends the run with a fuel-exhaustion result.
C8_FuelNeverNegative ==
  /\ [](FuelNonNegative(traj) /\ FuelNonNegative(tamarack_data)
          /\ FuelNonNegative(flatwing_data))
  /\ [][(pc = "sim" /\ fs.status = "running" /\ fs.fuel - FuelPerStep < 0
           /\ fs' # fs) =>
          /\ fs' = NoFlight
          /\ IF Head(queue).mod = "Tamarack"
             THEN tamarack_data' = traj /\ tamarack_results'.error # ""
             ELSE flatwing_data' = traj /\ flatwing_results'.error # ""]_vars

\* A run started with less fuel than one step burns has ended with a
\* fuel-exhaustion result and the single sample of the start.
C8_Witness ==
  /\ flatwing_results.have /\ flatwing_results.error # ""
  /\ Len(flatwing_data) = 1
  /\ flatwing_data[1].Fuel < FuelPerStep
  /\ flatwing_data[1].Fuel >= 0

\* The run_simulation call made for the wing variant m.
CallOf(m) == CHOOSE c \in {calls[i] : i \in 1..Len(calls)} : c.mod = m

\* The end of the run of variant m with the trajectory and results given:
\* the fuel has reached the floor exactly when the results carry the
\* error, and then they carry the position and the segment of the last
\* sample.
FuelExhaustionOutcome(m, data, results) ==
  results.have =>
    /\ data # << >>
    /\ results.EndSegment = LastOf(data).Segment
    /\ results.error # "" <=>
         LastOf(data).Fuel - FuelPerStep <= fuel_floor(CallOf(m))
    /\ results.error # "" => results.LastPos = LastOf(data).Pos

\* C9: a run whose fuel reaches the reserve + taxi floor ends there with
\* results that carry a fuel-exhaustion error and the position of the last
\* sample; no sample of a later segment follows; for the Flatwing the map
\* marks that position as the point of fuel exhaustion.
C9_FuelExhaustionCarriesLastPosition ==
  (pc = "sim" \/ ~ w.v1_cut_enabled) =>
    /\ FuelExhaustionOutcome("Tamarack", tamarack_data, tamarack_results)
    /\ FuelExhaustionOutcome("Flatwing", flatwing_data, flatwing_results)
    /\ (flatwing_results.have /\ flatwing_results.error # "") =>
         flatwing_fuel_exhaustion(flatwing_data, flatwing_results)
           = LastOf(flatwing_data).Pos

\* A Flatwing run that ran out of fuel in the descent or later.
C9_Witness ==
  /\ HandedOn /\ ~ w.v1_cut_enabled
  /\ flatwing_results.error # ""
  /\ flatwing_results.EndSegment > CruiseStep
  /\ flatwing_results.EndSegment < Landing
  /\ flatwing_results.LastPos = LastOf(flatwing_data).Pos
  /\ flatwing_results.LastPos > 0

\* The scheduling of a script run: the script is a sequential program, so
\* a call that can start starts, a run that can step steps and the script
\* goes on after the last call.
FairSpec ==
  Spec /\ WF_vars(SimStart) /\ WF_vars(SimStep) /\ WF_vars(Finish)

\* The run of variant m is in progress.
Running(m) == pc = "sim" /\ fs.status = "running" /\ Head(queue).mod = m

\* The results of a run that reached a terminal or an abort state.
Ended(results, v1) ==
  /\ results.have
  /\ \/ results.error # ""
     \/ results.exceedances # << >>
     \/ results.EndSegment = Landing
     \/ (v1 /\ results.EndSegment = Segment3)

\* C10: every run_simulation call of a validated run ends: it reaches the
\* landing at segment 12, the close of Segment 3 with the V1 cut, a
\* fuel-exhaustion error or a climb-gradient exceedance.
C10_EveryRunEnds ==
  /\ Running("Tamarack") ~> Ended(tamarack_results, w.v1_cut_enabled)
  /\ Running("Flatwing") ~> Ended(flatwing_results, w.v1_cut_enabled)

\* A comparison run in which the Tamarack landed and the Flatwing ran out
\* of fuel after a longer cruise.
C10_Witness ==
  /\ HandedOn
  /\ tamarack_results.have /\ tamarack_results.error = ""
  /\ tamarack_results.exceedances = << >>
  /\ tamarack_results.EndSegment = Landing
  /\ flatwing_results.error # ""

\* ------------------------------------------------------------------------
\* The output location of the runs of one press of Run Simulation, when the
\* server process serves several sessions.  Every session runs app.py in its
\* own thread; the simulation module, and with it the output timestamp that
\* reset_output_timestamp and get_global_timestamp work on, is loaded once
\* per process.  Neither function takes or returns anything that belongs to
\* one run or one session.
\* ------------------------------------------------------------------------

MaxClock == 2

\* The session state of the script variables kept here.
session_vars ==
  << cfg, w, ss, pc, stop, ran_now, fw_summary_v, t_summary_v, violations,
     calls, queue, fs, traj, tamarack_data, tamarack_results,
     flatwing_data, flatwing_results, sim >>

\* reset_output_timestamp(): the timestamps the module may hold afterwards.
\* Whether the new stamp is taken at once or at the next request is decided
\* in simulation.py.
reset_output_timestamp(now) == {Absent, now}

\* get_global_timestamp(): the module's timestamp, taken now when there is
\* none.
get_global_timestamp(g, now) == IF g = Absent THEN now ELSE g

\* Time passes.
Tick ==
  /\ clock < MaxClock
  /\ clock' = clock + 1
  /\ UNCHANGED << global_timestamp, runner >>
  /\ UNCHANGED session_vars

\* app.py 482-484: a session's script finds ran_now set.
RunPressed(s) ==
  /\ runner[s].at = "idle"
  /\ global_timestamp' \in reset_output_timestamp(clock)
  /\ runner' = [runner EXCEPT ![s] = [IdleRunner EXCEPT !.at = "tamarack"]]
  /\ UNCHANGED clock
  /\ UNCHANGED session_vars

\* app.py 726-731: the Tamarack run of the comparison writes its file below
\* single_output/<timestamp>.
RunTamarack(s) ==
  /\ runner[s].at = "tamarack"
  /\ global_timestamp' = get_global_timestamp(global_timestamp, clock)
  /\ runner' = [runner EXCEPT ![s].at = "flatwing",
                              ![s].tamarack_output_file = global_timestamp']
  /\ UNCHANGED clock
  /\ UNCHANGED session_vars

\* app.py 732-736: the Flatwing run of the comparison.
RunFlatwing(s) ==
  /\ runner[s].at = "flatwing"
  /\ global_timestamp' = get_global_timestamp(global_timestamp, clock)
  /\ runner' = [runner EXCEPT ![s].at = "store",
                              ![s].flatwing_output_file = global_timestamp']
  /\ UNCHANGED clock
  /\ UNCHANGED session_vars

\* app.py 789-797: the session stores the output directory with its results;
\* the script run ends.
StoreSim(s) ==
  /\ runner[s].at = "store"
  /\ global_timestamp' = get_global_timestamp(global_timestamp, clock)
  /\ runner' = [runner EXCEPT ![s].at = "idle",
                              ![s].output_dir = global_timestamp']
  /\ UNCHANGED clock
  /\ UNCHANGED session_vars

RunsNext ==
  \/ Tick
  \/ \E s \in Sessions : RunPressed(s)
  \/ \E s \in Sessions : RunTamarack(s)
  \/ \E s \in Sessions : RunFlatwing(s)
  \/ \E s \in Sessions : StoreSim(s)

RunsSpec == Init /\ [][RunsNext]_vars

\* C11: independent runs share no mutable state, so running them
\* concurrently in any interleaving gives the same output locations as
\* running them one after the other: the two runs of one comparison write
\* below one directory, and that is the directory the session stores.
C11_RunsShareNoMutableState ==
  \A s \in Sessions :
    /\ runner[s].at = "store" =>
         runner[s].flatwing_output_file = runner[s].tamarack_output_file
    /\ runner[s].output_dir # Absent /\ runner[s].at = "idle" =>
         /\ runner[s].output_dir = runner[s].tamarack_output_file
         /\ runner[s].output_dir = runner[s].flatwing_output_file

\* ------------------------------------------------------------------------
\* The cruise altitude goal, over every model of the table: the user picks
\* models and wing types, types cruise altitudes and presses Run Simulation.
\* ------------------------------------------------------------------------

CruiseChoices == {0, 24000, 35000, 43000}

\* The user picks any model of the table (app.py 62-63).
SelectAircraft ==
  /\ pc = "idle"
  /\ \E m \in aircraft_types \ {w.aircraft_model} :
       Script([w EXCEPT !.aircraft_model = m], ss, FALSE, Absent)

\* The user types a cruise altitude goal within the input's range
\* (app.py 326-333).
EditCruiseF ==
  /\ pc = "idle" /\ weights_rendered
  /\ \E v \in CruiseChoices :
       /\ v # w.cruise_altitude_input_flatwing.val
       /\ v <= w.cruise_altitude_input_flatwing.sig[2]
       /\ Script([w EXCEPT !.cruise_altitude_input_flatwing.val = v], ss,
                 FALSE, Absent)

\* app.py 444-451.
EditCruiseT ==
  /\ pc = "idle" /\ weights_rendered
  /\ \E v \in CruiseChoices :
       /\ v # w.cruise_altitude_input_tamarack.val
       /\ v <= w.cruise_altitude_input_tamarack.sig[2]
       /\ Script([w EXCEPT !.cruise_altitude_input_tamarack.val = v], ss,
                 FALSE, Absent)

\* The script run of a press ends once the calls are made: the runs
\* themselves are left out here.
CruiseNext ==
  \/ Load
  \/ SelectAircraft
  \/ SelectWing
  \/ EditCruiseF
  \/ EditCruiseT
  \/ PressRun

CruiseSpec == Init /\ [][CruiseNext]_vars

\* The calls the last press of Run Simulation makes.
CallsMade == { queue[i] : i \in 1..Len(queue) }

\* C12: the cruise altitude passed to run_simulation is between 0 and the
\* service ceiling of the configuration being run.
C12_CruiseAltitudeWithinCeiling ==
  \A c \in CallsMade :
    /\ <<c.aircraft_model, c.mod>> \in cfg
    /\ 0 <= c.cruise_altitude
    /\ c.cruise_altitude <= AIRCRAFT_CONFIG(<<c.aircraft_model, c.mod>>).ceiling

\* A comparison of a 25,000 ft model runs with a typed Tamarack goal and the
\* Flatwing goal at the ceiling, after a model with a higher ceiling.
C12_Witness ==
  /\ \E c \in CallsMade : c.mod = "Tamarack" /\ c.cruise_altitude = 24000
                           /\ c.aircraft_model = "C208"
  /\ \E c \in CallsMade : c.mod = "Flatwing" /\ c.cruise_altitude = 25000
  /\ ss.last_aircraft = "C208"

\* What the first archived display_simulation_results shows of the
\* trajectories and results handed to it.
Shown ==
  display_simulation_results(tamarack_data, tamarack_results,
                             flatwing_data, flatwing_results)

\* The results of a configuration carry exceedances or an error.
Failed(results) == results.exceedances # << >> \/ results.error # ""

\* C13: in the first archived display_simulation_results, exceedances or
\* an error in one configuration's results never suppress the other
\* configuration: the other's final results, and the flight-profile charts
\* when both have data, are still displayed.
C13_FailureDoesNotSuppressOther ==
  HandedOn =>
    /\ (Failed(tamarack_results) /\ flatwing_data # << >>
        /\ ~ Failed(flatwing_results)) =>
          /\ Shown.final_flatwing
          /\ tamarack_data # << >> => Shown.charts
    /\ (Failed(flatwing_results) /\ tamarack_data # << >>
        /\ ~ Failed(tamarack_results)) =>
          /\ Shown.final_tamarack
          /\ flatwing_data # << >> => Shown.charts

\* C14: the configuration table is never mutated: no script run, whatever
\* the user selected or typed before it, changes AIRCRAFT_CONFIG; the user's
\* edits end up in the widget and session state only.
C14_ConfigNeverMutated == [][cfg' = cfg]_vars

\* A run handed on for a model without a Tamarack entry, after the user
\* typed another Flatwing BOW, payload and fuel.
C14_Witness ==
  /\ HandedOn
  /\ <<w.aircraft_model, "Tamarack">> \notin cfg
  /\ w.bow_input_flatwing.val
       # PyInt(AIRCRAFT_CONFIG(<<w.aircraft_model, "Flatwing">>).bow)
  /\ ss.payload_input_flatwing > 0
  /\ w.fuel_input_flatwing.val = 100
  /\ flatwing_results.have

\* app.py 345: the Tamarack BOW is this much above the Flatwing BOW.
bow_diff(aircraft_model) == IF aircraft_model = "M2" THEN 65 ELSE 75

\* C15: in comparison mode the Tamarack BOW equals the current Flatwing BOW
\* input plus 75 lb (65 lb for the M2), also after the user edited the
\* Flatwing BOW, and the Tamarack weight summary is built on that BOW.
C15_TamarackBowFollowsFlatwing ==
  (pc # "load" /\ weights_rendered
     /\ <<w.aircraft_model, "Tamarack">> \in cfg) =>
    /\ ss.bow_tamarack = w.bow_input_flatwing.val + bow_diff(w.aircraft_model)
    /\ t_summary_v # NoSummary =>
         t_summary_v.bow
           = Lb(w.bow_input_flatwing.val + bow_diff(w.aircraft_model))

\* ------------------------------------------------------------------------
\* The weight inputs of the sidebar, with BOW and payload values that move
\* the payload limit both ways: the user picks models and weight options
\* (any model of the table) and types BOWs and payloads; no run is started.
\* ------------------------------------------------------------------------

BowInputs == {7000, 8000}
PayloadInputs == {1150, 1400}

\* app.py 246-257: the user types a Flatwing BOW.
TypeBowF ==
  /\ pc = "idle" /\ weights_rendered
  /\ \E v \in BowInputs :
       /\ v # w.bow_input_flatwing.val
       /\ v <= w.bow_input_flatwing.sig[2]
       /\ Script([w EXCEPT !.bow_input_flatwing.val = v],
                 [ss EXCEPT !.bow_changed = TRUE], FALSE, Absent)

\* app.py 359-375: the user types a Tamarack BOW (the input is disabled in
\* comparison mode).
TypeBowT ==
  /\ pc = "idle" /\ weights_rendered
  /\ <<w.aircraft_model, "Tamarack">> \notin cfg
  /\ \E v \in BowInputs :
       /\ v # ss.bow_tamarack
       /\ Lb(v) <= tamarack_values(cfg, w.aircraft_model).mzfw
       /\ Script(w, [ss EXCEPT !.bow_changed_t = TRUE], FALSE, v)

\* app.py 284-294: the user types a Flatwing payload within the range of
\* the input.
TypePayloadF ==
  /\ pc = "idle" /\ weights_rendered
  /\ \E v \in PayloadInputs :
       /\ v # ss.payload_input_flatwing
       /\ Lb(v) <= Max(0, AIRCRAFT_CONFIG(<<w.aircraft_model, "Flatwing">>).mzfw
                            - Lb(w.bow_input_flatwing.val))
       /\ Script(w, [ss EXCEPT !.payload_input_flatwing = v], FALSE, Absent)

\* app.py 402-412: the user types a Tamarack payload within the range of
\* the input.
TypePayloadT ==
  /\ pc = "idle" /\ weights_rendered
  /\ \E v \in PayloadInputs :
       /\ v # ss.payload_input_tamarack
       /\ Lb(v) <= Max(0, tamarack_values(cfg, w.aircraft_model).mzfw
                            - Lb(ss.bow_tamarack))
       /\ Script(w, [ss EXCEPT !.payload_input_tamarack = v], FALSE, Absent)

WeightsNext ==
  \/ Load
  \/ SelectAircraft
  \/ SelectWeightOption
  \/ TypeBowF
  \/ TypeBowT
  \/ TypePayloadF
  \/ TypePayloadT

WeightsSpec == Init /\ [][WeightsNext]_vars

\* int(max_payload_f) and int(max_payload_t) of the last script run
\* (app.py 260, 378).
max_payload_f == PyInt(Max(0, AIRCRAFT_CONFIG(<<w.aircraft_model, "Flatwing">>).mzfw - Lb(w.bow_input_flatwing.val)))
max_payload_t == PyInt(Max(0, tamarack_values(cfg, w.aircraft_model).mzfw - Lb(ss.bow_tamarack)))

\* The last script run created the weight inputs.
WeightsShown == pc # "load" /\ weights_rendered

\* C16: after every rerun and for both variants, the payload in session
\* state (the value handed to the payload input) is between 0 and
\* int(max(0, MZFW - BOW)) for the variant's current BOW.
C16_PayloadWithinRange ==
  WeightsShown =>
    /\ 0 <= ss.payload_input_flatwing
    /\ ss.payload_input_flatwing <= max_payload_f
    /\ 0 <= ss.payload_input_tamarack
    /\ ss.payload_input_tamarack <= max_payload_t

\* Both payloads were cut down to the limit of a BOW typed after them.
C16_Witness ==
  /\ WeightsShown /\ w.weight_option = ManualInput
  /\ w.bow_input_flatwing.val = 8000 /\ ss.payload_input_flatwing = 400
  /\ ss.bow_tamarack = 8000 /\ ss.payload_input_tamarack = 400

\* The step is a rerun that leaves the app in Max Payload mode with the
\* same model.
MaxPayloadRerun ==
  /\ WeightsShown /\ WeightsShown'
  /\ w'.aircraft_model = w.aircraft_model
  /\ w'.weight_option = MaxPayloadOption

\* The rerun was caused by a change of the weight option or by a BOW typed.
OptionOrBowChanged ==
  \/ w'.weight_option # w.weight_option
  \/ w'.bow_input_flatwing.val # w.bow_input_flatwing.val
  \/ ss'.bow_tamarack # ss.bow_tamarack

\* The payload after the rerun is the one entered: the previous one or one
\* typed in this rerun, cut down to the limit.
Kept(before, after, limit) ==
  \/ after = Min(before, limit)
  \/ after \in PayloadInputs /\ after <= limit

\* C17: in Max Payload mode the payload is set to int(max(0, MZFW - BOW))
\* on the reruns in which the weight option just changed to Max Payload or
\* the BOW was just modified, and on every other rerun in Max Payload mode
\* the payload entered before is kept (only limited), for the Flatwing and
\* for the Tamarack alike.
C17_MaxPayloadSetOnlyOnChange ==
  [][MaxPayloadRerun =>
       /\ (w'.weight_option # w.weight_option
           \/ w'.bow_input_flatwing.val # w.bow_input_flatwing.val) =>
             ss'.payload_input_flatwing = max_payload_f'
       /\ (w'.weight_option # w.weight_option
           \/ ss'.bow_tamarack # ss.bow_tamarack) =>
             ss'.payload_input_tamarack = max_payload_t'
       /\ ~ OptionOrBowChanged =>
             /\ Kept(ss.payload_input_flatwing, ss'.payload_input_flatwing,
                     max_payload_f')
             /\ Kept(ss.payload_input_tamarack, ss'.payload_input_tamarack,
                     max_payload_t')]_vars

\* The step is the rerun of a change of the model, the weight option being
\* the same before and after, that gets as far as the weight inputs.
ModelChangeRerun ==
  /\ pc # "load"
  /\ w'.aircraft_model # w.aircraft_model
  /\ w'.weight_option = w.weight_option
  /\ WeightsShown'

\* app.py 341-349: the Tamarack BOW derived for model m from its configured
\* Flatwing BOW; without a Tamarack entry the Flatwing values stand in.
derived_bow_tamarack(m) ==
  IF <<m, "Tamarack">> \in cfg
  THEN PyInt(AIRCRAFT_CONFIG(<<m, "Flatwing">>).bow) + bow_diff(m)
  ELSE PyInt(AIRCRAFT_CONFIG(<<m, "Flatwing">>).bow)

\* C18: on the rerun in which the selected model differs from the previous
\* one (the weight option being unchanged), both payload inputs are reset
\* to 0 and the Tamarack BOW is discarded and derived again from the new
\* model's Flatwing BOW.
C18_ModelChangeResetsPayloadAndBow ==
  [][ModelChangeRerun =>
       /\ ss'.payload_input_flatwing = 0
       /\ ss'.payload_input_tamarack = 0
       /\ ss'.bow_tamarack = derived_bow_tamarack(w'.aircraft_model)]_vars

\* In Max Payload mode, the M2 was just selected: the payloads are 0 and
\* the Tamarack BOW is the M2's.
C18_Witness ==
  /\ WeightsShown /\ w.weight_option = MaxPayloadOption
  /\ w.aircraft_model = "M2" /\ <<"M2", "Tamarack">> \in cfg
  /\ ss.payload_input_flatwing = 0 /\ ss.payload_input_tamarack = 0
  /\ ss.bow_tamarack = 8095

\* The Flatwing entry of the selected model.
flatwing_config == AIRCRAFT_CONFIG(<<w.aircraft_model, "Flatwing">>)

\* C19: in the Max Fuel option, for every model of AIRCRAFT_CONFIG, the
\* default payload and fuel the script computes (after the non-negativity
\* and max-fuel limits) give a ramp weight BOW + payload + fuel of at most
\* MRW and a takeoff weight (ramp weight less taxi fuel) of at most MTOW.
C19_MaxFuelDefaultsWithinLimits ==
  (WeightsShown /\ w.weight_option = MaxFuelOption) =>
    LET rw == flatwing_config.bow + Lb(ss.initial_values.payload)
                + Lb(ss.initial_values.fuel)
    IN  /\ rw <= flatwing_config.mrw
        /\ rw - flatwing_config.taxi_fuel <= flatwing_config.mtow

\* ------------------------------------------------------------------------
\* The results a session keeps between reruns: the user picks wing types
\* and presses Run Simulation with the V1 cut ticked (the short runs); a
\* run that gets as far as displaying its results stores them, and a rerun
\* without the button shows the stored ones.
\* ------------------------------------------------------------------------

\* A main area that shows nothing on a rerun without the button.
rerun_display_cleared(stop_at, stored) == << >>

\* app.py 972-990: what the main area shows on a rerun without the button.
\* A script stopped in the sidebar (lines 94, 100, 458) never gets there.
rerun_display(stop_at, stored) ==
  IF stop_at \in {"config", "wing"} THEN << >> ELSE stored

\* app.py 750-798: Finish, and the copy of the displayed trajectories and
\* results in st.session_state['sim'].
DisplayAndStore ==
  /\ pc = "sim" /\ fs.status = "none" /\ queue = << >>
  /\ tamarack_data' = v1_cut_truncate(tamarack_data, w.v1_cut_enabled)
  /\ flatwing_data' = v1_cut_truncate(flatwing_data, w.v1_cut_enabled)
  /\ pc' = "idle"
  /\ sim' = << [tam_data |-> tamarack_data',
                tam_results |-> tamarack_results,
                flat_data |-> flatwing_data',
                flat_results |-> flatwing_results,
                aircraft_model |-> w.aircraft_model,
                wing_type |-> w.wing_type] >>
  /\ UNCHANGED << cfg, w, ss, stop, ran_now, fw_summary_v, t_summary_v,
                  violations, calls, queue, fs, traj, tamarack_results,
                  flatwing_results >>
  /\ UNCHANGED process_vars

\* The user presses Run Simulation while the V1 cut is ticked.
PressRunV1Cut ==
  /\ w.v1_cut_enabled
  /\ PressRun

ResultsNext ==
  \/ Load
  \/ SelectWing
  \/ ToggleV1Cut
  \/ PressRunV1Cut
  \/ SimStart
  \/ SimStep
  \/ DisplayAndStore

ResultsSpec == Init /\ [][ResultsNext]_vars

\* The step ends a script run without the button, or the first run.
RerunWithoutButton == pc' = "idle" /\ ~ ran_now' /\ pc # "sim"

\* The step is the one in which a run displays and stores its results.
DisplaysResults == pc = "sim" /\ pc' = "idle"

\* The stored copy holds what was handed to display_simulation_results.
StoredAsDisplayed ==
  /\ sim' # << >>
  /\ sim'[1].tam_data = tamarack_data'
  /\ sim'[1].tam_results = tamarack_results'
  /\ sim'[1].flat_data = flatwing_data'
  /\ sim'[1].flat_results = flatwing_results'

FlapOptions == {"Flap 0", "Flaps 15"}

\* The user picks the other takeoff flap setting (app.py 461).
SelectFlap ==
  /\ pc = "idle" /\ all_rendered
  /\ \E o \in FlapOptions \ {w.flap_option} :
       Script([w EXCEPT !.flap_option = o], ss, FALSE, Absent)

FlapNext ==
  \/ Load
  \/ SelectAircraft
  \/ SelectWing
  \/ SelectFlap
  \/ PressRun

FlapSpec == Init /\ [][FlapNext]_vars

\* C21 as stated: the takeoff flap handed to run_simulation is 0 when
\* "Flap 0" is selected and 15 when "Flaps 15" is selected, and nothing
\* else.
C21_TakeoffFlapIsZeroOrFifteen ==
  \A c \in CallsMade :
    /\ c.takeoff_flap \in {0, 15}
    /\ c.takeoff_flap = 15 <=> w.flap_option = "Flaps 15"

\* C21, amended: the takeoff flap handed to run_simulation is 0 when
\* "Flap 0" is selected and 1 when "Flaps 15" is selected, and nothing
\* else; both calls of a comparison get the same value.
C21_TakeoffFlapIsZeroOrOne ==
  \A c \in CallsMade :
    /\ c.takeoff_flap \in {0, 1}
    /\ c.takeoff_flap = 1 <=> w.flap_option = "Flaps 15"
    /\ c.takeoff_flap = 0 <=> w.flap_option = "Flap 0"

\* A comparison is run with Flaps 15 selected.
C21_Witness ==
  /\ pc = "sim" /\ w.flap_option = "Flaps 15" /\ Len(queue) = 2
  /\ \A c \in CallsMade : c.takeoff_flap = 1

\* ------------------------------------------------------------------------
\* The error lines of the later archived display_simulation_results, on
\* results drawn freely: a run records its non-fatal exceedances and goes
\* on, and may still end with a fuel-exhaustion error.
\* ------------------------------------------------------------------------

\* display.py 1240-1245 and 1247-1251 (the later archived copy): the
\* st.error lines written for one configuration's results.
exceedances_or_errors(results) ==
  IF results.exceedances # << >> THEN results.exceedances
  ELSE IF results.error # "" THEN << results.error >>
  ELSE << >>

\* The exceedance lists a run may return.
ExceedanceLists ==
  { << >>, << "Speed limit exceeded" >>,
    << "Speed limit exceeded", "Altitude limit exceeded" >> }

\* The ResultsSummary records a run may return.
RunResults ==
  [have : {TRUE}, error : {"", "Fuel exhausted"},
   exceedances : ExceedanceLists, V1Cut : BOOLEAN,
   LastPos : {0}, EndSegment : {GroundRoll}]

\* The trajectory that comes with them.
RunData(results) ==
  IF results.have
  THEN << Sample([status |-> "running", segment |-> results.EndSegment,
                  fuel |-> 0, pos |-> results.LastPos]) >>
  ELSE << >>

\* display_simulation_results is handed the results of one configuration
\* or of both.
DisplayResults ==
  /\ pc = "load"
  /\ \E tr \in RunResults \cup {NoResults}, fr \in RunResults \cup {NoResults} :
       /\ tr.have \/ fr.have
       /\ tamarack_results' = tr
       /\ flatwing_results' = fr
       /\ tamarack_data' = RunData(tr)
       /\ flatwing_data' = RunData(fr)
  /\ pc' = "idle"
  /\ UNCHANGED << cfg, w, ss, stop, ran_now, fw_summary_v, t_summary_v,
                  violations, calls, queue, fs, traj >>
  /\ UNCHANGED sim
  /\ UNCHANGED process_vars

DisplaySpec == Init /\ [][DisplayResults]_vars

\* The messages of a sequence of st.error lines.
Messages(lines) == { lines[i] : i \in 1..Len(lines) }

\* C22: in the later archived display_simulation_results every message of
\* a configuration's exceedances list is displayed, and when the same
\* results also carry an error the error message is displayed as well.
C22_AllViolationsSurfaced ==
  \A results \in {tamarack_results, flatwing_results} :
    /\ Messages(results.exceedances) \subseteq
         Messages(exceedances_or_errors(results))
    /\ results.error # "" =>
         results.error \in Messages(exceedances_or_errors(results))

\* ------------------------------------------------------------------------
\* The weights validated and the weights simulated.
\* ------------------------------------------------------------------------

\* The run_simulation calls of the script run in progress: those started
\* and those still to be made.
CallsOfRun == { calls[i] : i \in 1..Len(calls) } \cup CallsMade

\* The validated weight summary of a wing variant.
SummaryOf(mod) == IF mod = "Tamarack" THEN t_summary_v ELSE fw_summary_v

\* C23: for each wing variant, the payload and the fuel passed to
\* run_simulation are exactly the payload and the fuel of that variant's
\* validated weight summary: the weights that passed the validation are
\* the weights that are simulated.
C23_ValidatedWeightsAreSimulated ==
  pc = "sim" =>
    \A c \in CallsOfRun :
      /\ SummaryOf(c.mod) # NoSummary
      /\ Lb(c.payload) = SummaryOf(c.mod).payload
      /\ Lb(c.fuel) = SummaryOf(c.mod).fuel

\* C24: the BOW on which the validated ZFW, ramp weight and takeoff weight
\* of a wing variant are computed equals the BOW of that variant in
\* AIRCRAFT_CONFIG (run_simulation is passed no BOW), whatever the user
\* edited before the run.
C24_ValidatedBowIsConfigured ==
  pc = "sim" =>
    \A c \in CallsOfRun :
      LET sm == SummaryOf(c.mod)
          bow == AIRCRAFT_CONFIG(<<c.aircraft_model, c.mod>>).bow
      IN  /\ sm.bow = bow
          /\ sm.zfw = bow + sm.payload
          /\ sm.rw = bow + sm.payload + sm.fuel
          /\ sm.tow = bow + sm.payload + sm.fuel - sm.taxi_fuel

\* C25: whenever run_simulation is invoked, the mission fuel of the
\* configuration (initial fuel less reserve fuel less taxi fuel) is not
\* negative: a request with less initial fuel than reserve + taxi fuel is
\* blocked by the validation.
C25_MissionFuelNotNegative ==
  pc = "sim" =>
    \A c \in CallsOfRun :
      /\ c.fuel - c.reserve_fuel - c.taxi_fuel >= 0
      /\ SummaryOf(c.mod).mission_fuel >= 0

=============================================================================
